---- MODULE Spec2Model ----
(***************************************************************************)
(* Model of the CoxRossRubinsteinModel class of the CRR notebook cell      *)
(* (src/BlackScholesModel/DaxOptions.ipynb, lines 411-488).                *)
(*                                                                         *)
(* Numbers are exact rationals <<numerator, denominator>> in lowest terms  *)
(* with a positive denominator.  The inputs enumerated below are dyadic    *)
(* rationals with small numerators, on which the binary64 arithmetic of    *)
(* the notebook is exact, so every product computed here is the value the  *)
(* program computes.  Logarithms, square roots and the log-normal density  *)
(* are kept as expression trees.                                           *)
(*                                                                         *)
(* The module also models the functions of the Black-Scholes notebook      *)
(* (src/unnamed/part_002) and safeImpliedVolatility; their calls are the   *)
(* actions of the specification SpecBS, the class is the specification     *)
(* Spec.  SpecMoves is a client calling moves alone, with the fairness     *)
(* that lets a started call run on; SpecSums holds the calls of integral   *)
(* and variation (same notebook as the class, lines 626-691).              *)
(***************************************************************************)
EXTENDS Integers, Sequences, FiniteSets, TLC

VARIABLES S0, r, d, u, T, N, times, gridPoints, constructed,
          pc, caller, depth, withDensity, stack, acc, op, ret, exc, shown, args

fields == <<S0, r, d, u, T, N, times, gridPoints>>
vars == <<S0, r, d, u, T, N, times, gridPoints, constructed,
          pc, caller, depth, withDensity, stack, acc, op, ret, exc, shown, args>>

----------------------------------------------------------------------------
(* Bounds of the model *)

MaxN == 3

RecursionLimit == 6

(* Inputs of the constructor and of the public methods *)

S0Values == { <<1, 1>>, <<100, 1>> }

rValues == { <<0, 1>>, <<1, 4>> }

dValues == { <<-3, 2>>, <<-1, 1>>, <<-3, 4>>, <<-1, 2>>, <<0, 1>>, <<1, 2>> }

uValues == { <<-1, 2>>, <<0, 1>>, <<1, 2>>, <<1, 1>> }

TValues == { <<1, 1>>, <<2, 1>> }

NValues == (-2)..MaxN

DepthValues == 0..MaxN

SValues == { <<1, 2>>, <<1, 1>>, <<2, 1>> }

----------------------------------------------------------------------------
(* Exact rational arithmetic *)

Abs(x) == IF x < 0 THEN -x ELSE x

RECURSIVE GCD(_, _)
GCD(a, b) == IF b = 0 THEN a ELSE GCD(b, a % b)

Rat(n, m) ==
    LET g == GCD(Abs(n), Abs(m))
        s == IF m < 0 THEN -1 ELSE 1
    IN  <<(s * n) \div g, (s * m) \div g>>

Zero == <<0, 1>>

One == <<1, 1>>

RAdd(x, y) == Rat(x[1] * y[2] + y[1] * x[2], x[2] * y[2])

RMul(x, y) == Rat(x[1] * y[1], x[2] * y[2])

RLess(x, y) == x[1] * y[2] < y[1] * x[2]

RLeq(x, y) == x[1] * y[2] <= y[1] * x[2]

RECURSIVE RPow(_, _)
RPow(x, e) == IF e = 0 THEN One ELSE RMul(x, RPow(x, e - 1))

RECURSIVE Pow2(_)
Pow2(e) == IF e <= 0 THEN 1 ELSE 2 * Pow2(e - 1)

Min(a, b) == IF a < b THEN a ELSE b

----------------------------------------------------------------------------
(* __init__ *)

(* np.linspace(0.0, stop, num) for num >= 0 *)
Linspace(stop, num) ==
    [k \in 1..num |-> IF num = 1 THEN Zero ELSE RMul(Rat(k - 1, num - 1), stop)]

(* GridRow with the two exponents exchanged *)
GridRowExponentsSwapped(dd, uu, k) ==
    [i1 \in 1..(k + 1) |->
        RMul(RPow(RAdd(One, dd), i1 - 1), RPow(RAdd(One, uu), k - (i1 - 1)))]

(* [ (1+d)**(k-i) * (1+u)**i for i in range(k+1) ] *)
GridRow(dd, uu, k) ==
    [i1 \in 1..(k + 1) |->
        RMul(RPow(RAdd(One, dd), k - (i1 - 1)), RPow(RAdd(One, uu), i1 - 1))]

(* [ np.array([ 1.0 ]) ] followed by one appended row for k in range(1, N+1) *)
GridPoints(dd, uu, n) ==
    [k1 \in 1..(IF n >= 1 THEN n + 1 ELSE 1) |->
        IF k1 = 1 THEN << One >> ELSE GridRow(dd, uu, k1 - 1)]

(* np.linspace raises ValueError for a negative number of samples; the    *)
(* object is then never bound and none of its methods can be called.      *)
Init ==
    /\ S0 \in S0Values
    /\ r \in rValues
    /\ d \in dValues
    /\ u \in uValues
    /\ T \in TValues
    /\ N \in NValues
    /\ constructed = (N + 1 >= 0)
    /\ times = IF N + 1 >= 0 THEN Linspace(T, N + 1) ELSE << >>
    /\ gridPoints = IF N + 1 >= 0 THEN GridPoints(d, u, N) ELSE << >>
    /\ pc = "idle"
    /\ caller = "none"
    /\ depth = 0
    /\ withDensity = FALSE
    /\ stack = << >>
    /\ acc = << >>
    /\ op = "none"
    /\ ret = << >>
    /\ exc = "none"
    /\ shown = << >>
    /\ args = << >>

----------------------------------------------------------------------------
(* moves: the recursion is followed frame by frame.  stack holds the depth *)
(* argument of every active call of moves, outermost first; acc holds the  *)
(* value returned by the call that returned last.                          *)

(* MovesBase listing the up move first *)
MovesBaseUFirst == << << u >>, << d >> >>

(* np.array([ [ self.d ], [ self.u ] ]) *)
MovesBase == << << d >>, << u >> >>

(* np.append( x * np.ones([subTree.shape[0],1]), subTree, axis=1) *)
PrependColumn(x, subTree) == [j \in 1..Len(subTree) |-> << x >> \o subTree[j]]

(* MovesCombine returning D alone *)
MovesCombineOnlyD(subTree) == PrependColumn(d, subTree)

(* MovesCombine with U built from self.d as well *)
MovesCombineTwiceD(subTree) == PrependColumn(d, subTree) \o PrependColumn(d, subTree)

(* MovesCombine appending D after U *)
MovesCombineUFirst(subTree) == PrependColumn(u, subTree) \o PrependColumn(d, subTree)

(* np.append(D, U, axis=0) *)
MovesCombine(subTree) == PrependColumn(d, subTree) \o PrependColumn(u, subTree)

Enter(who, dep, wd) ==
    /\ constructed
    /\ pc = "idle"
    /\ pc' = "call"
    /\ caller' = who
    /\ depth' = dep
    /\ withDensity' = wd
    /\ stack' = << dep >>
    /\ acc' = << >>
    /\ op' = who
    /\ ret' = << >>
    /\ exc' = "none"
    /\ UNCHANGED <<fields, constructed, shown, args>>

(* m.moves(depth) with an explicit depth *)
Moves(dep) == Enter("moves", dep, FALSE)

(* m.moves(): depth == None, depth = self.N *)
MovesDefault == Enter("moves", N, FALSE)

(* the running call has depth == 1 and returns the base array *)
MovesReturnBase ==
    /\ pc = "call"
    /\ stack[Len(stack)] = 1
    /\ acc' = MovesBase
    /\ stack' = SubSeq(stack, 1, Len(stack) - 1)
    /\ pc' = "return"
    /\ UNCHANGED <<fields, constructed, caller, depth, withDensity, op, ret, exc, shown, args>>

(* MovesRecurse calling self.moves(depth) again *)
MovesRecurseSameDepth ==
    /\ pc = "call"
    /\ stack[Len(stack)] # 1
    /\ Len(stack) < RecursionLimit
    /\ stack' = Append(stack, stack[Len(stack)])
    /\ UNCHANGED <<fields, constructed, pc, caller, depth, withDensity, acc, op, ret, exc, shown, args>>

(* the running call has depth != 1 and calls self.moves(depth-1) *)
MovesRecurse ==
    /\ pc = "call"
    /\ stack[Len(stack)] # 1
    /\ Len(stack) < RecursionLimit
    /\ stack' = Append(stack, stack[Len(stack)] - 1)
    /\ UNCHANGED <<fields, constructed, pc, caller, depth, withDensity, acc, op, ret, exc, shown, args>>

(* the interpreter's recursion limit is reached: RecursionError unwinds    *)
(* every frame, through paths and plot, up to the caller                   *)
MovesRecursionError ==
    /\ pc = "call"
    /\ stack[Len(stack)] # 1
    /\ Len(stack) >= RecursionLimit
    /\ stack' = << >>
    /\ acc' = << >>
    /\ pc' = "idle"
    /\ exc' = "RecursionError"
    /\ ret' = << >>
    /\ UNCHANGED <<fields, constructed, caller, depth, withDensity, op, shown, args>>

(* a call that was waiting for subTree builds D and U and returns *)
MovesReturnCombined ==
    /\ pc = "return"
    /\ stack # << >>
    /\ acc' = MovesCombine(acc)
    /\ stack' = SubSeq(stack, 1, Len(stack) - 1)
    /\ UNCHANGED <<fields, constructed, pc, caller, depth, withDensity, op, ret, exc, shown, args>>

----------------------------------------------------------------------------
(* paths *)

(* PathStep multiplying by the move instead of by one plus the move *)
PathStepWithoutOne(p, m) == RMul(p, m)

(* PathStep carrying the value over unchanged *)
PathStepIgnoringMove(p, m) == p

(* p[:,k] * (1+m[:,k]) for one row *)
PathStep(p, m) == RMul(p, RAdd(One, m))

(* one row of p after the first k passes of the loop; p starts as np.ones *)
RECURSIVE PathRow(_, _)
PathRow(mrow, k) ==
    IF k <= 0 THEN [c \in 1..(Len(mrow) + 1) |-> One]
    ELSE LET prev == PathRow(mrow, k - 1)
         IN  [prev EXCEPT ![k + 1] = PathStep(prev[k], mrow[k])]

(* paths with the loop ending one step early *)
pathsSkippingLastStep(m) == [j \in 1..Len(m) |-> PathRow(m[j], N - 1)]

(* for k in range(self.N): p[:,k+1] = p[:,k] * (1+m[:,k]) *)
paths(m) == [j \in 1..Len(m) |-> PathRow(m[j], N)]

(* m.paths(): m = self.moves() *)
Paths == Enter("paths", N, FALSE)

----------------------------------------------------------------------------
(* blackScholesParameters, blackScholesPdf.  A record [log, times] stands  *)
(* for np.log(log) * times, a record [log, times, sqrtOf] for              *)
(* times * np.log(log) * np.sqrt(sqrtOf), and [sqrtOfProduct] for the      *)
(* np.sqrt of the product of its two entries.                              *)

RInv(x) == Rat(x[2], x[1])

(* self.N / self.T *)
NOverT == RMul(<<N, 1>>, RInv(T))

continuousRate == [log |-> RAdd(One, r), times |-> NOverT]

(* sigma_d without the minus sign *)
sigma_dWithoutMinus == [log |-> RAdd(One, d), times |-> One, sqrtOf |-> NOverT]

sigma_d == [log |-> RAdd(One, d), times |-> <<-1, 1>>, sqrtOf |-> NOverT]

(* sigma_u without the factor np.sqrt(self.N / self.T) *)
sigma_uWithoutSqrt == [log |-> RAdd(One, u), times |-> One, sqrtOf |-> One]

sigma_u == [log |-> RAdd(One, u), times |-> One, sqrtOf |-> NOverT]

(* averageSigma taking the root of sigma_u squared *)
averageSigmaOfUpAlone == [sqrtOfProduct |-> <<sigma_u, sigma_u>>]

averageSigma == [sqrtOfProduct |-> <<sigma_d, sigma_u>>]

blackScholesParameters == <<continuousRate, averageSigma>>

(* What binary64 makes of these expressions: "nan", "ninf" (-inf), "neg",  *)
(* "zero", "pos" or "inf".  numpy warns and carries on where the result is *)
(* nan or infinite; nothing is raised.                                     *)

(* a float literal or a quotient of fields *)
KindOf(x) == IF x[1] * x[2] < 0 THEN "neg" ELSE IF x[1] = 0 THEN "zero" ELSE "pos"

(* np.log(x): nan below 0, -inf at 0 *)
LogKind(x) ==
    IF KindOf(x) = "neg" THEN "nan"
    ELSE IF KindOf(x) = "zero" THEN "ninf"
    ELSE IF RLess(x, One) THEN "neg"
    ELSE IF x = One THEN "zero"
    ELSE "pos"

(* np.sqrt(k): nan below 0 *)
SqrtKind(k) == IF k \in {"nan", "ninf", "neg"} THEN "nan" ELSE k

(* a * b: nan when a factor is nan, and for 0 * inf *)
TimesKind(a, b) ==
    LET sgn(k) == IF k \in {"ninf", "neg"} THEN -1 ELSE IF k = "zero" THEN 0 ELSE 1
        infinite == a \in {"ninf", "inf"} \/ b \in {"ninf", "inf"}
    IN  IF a = "nan" \/ b = "nan" THEN "nan"
        ELSE IF sgn(a) * sgn(b) = 0 THEN (IF infinite THEN "nan" ELSE "zero")
        ELSE IF sgn(a) * sgn(b) > 0 THEN (IF infinite THEN "inf" ELSE "pos")
        ELSE (IF infinite THEN "ninf" ELSE "neg")

(* times * np.log(log) * np.sqrt(sqrtOf) *)
SigmaKind(e) ==
    TimesKind(TimesKind(KindOf(e.times), LogKind(e.log)), SqrtKind(KindOf(e.sqrtOf)))

(* np.sqrt(sigma_d * sigma_u) *)
AverageSigmaKind(a) ==
    SqrtKind(TimesKind(SigmaKind(a.sqrtOfProduct[1]), SigmaKind(a.sqrtOfProduct[2])))

(* lognorm.pdf(S, sigma, r*self.T) with r, sigma the two derived parameters *)
blackScholesPdf(S) ==
    LET rs == blackScholesParameters
    IN  [lognormPdf |-> S, s |-> rs[2],
         loc |-> [log |-> rs[1].log, times |-> RMul(rs[1].times, T)]]

Atomic(who, value) ==
    /\ constructed
    /\ pc = "idle"
    /\ op' = who
    /\ ret' = value
    /\ exc' = "none"
    /\ UNCHANGED <<fields, constructed, pc, caller, depth, withDensity, stack, acc, shown, args>>

BlackScholesParameters == Atomic("blackScholesParameters", blackScholesParameters)

(* BlackScholesPdf unpacking the derived rate into self.r *)
BlackScholesPdfAssigningR(S) ==
    /\ constructed
    /\ pc = "idle"
    /\ op' = "blackScholesPdf"
    /\ ret' = blackScholesPdf(S)
    /\ exc' = "none"
    /\ r' = RMul(RAdd(One, r), NOverT)
    /\ UNCHANGED <<S0, d, u, T, N, times, gridPoints, constructed, pc, caller,
                   depth, withDensity, stack, acc, shown, args>>

BlackScholesPdf(S) == Atomic("blackScholesPdf", blackScholesPdf(S))

----------------------------------------------------------------------------
(* plot *)

(* zip(self.times, self.gridPoints) *)
Markers ==
    [k \in 1..Min(Len(times), Len(gridPoints)) |-> <<times[k], gridPoints[k]>>]

(* paths_[:,-1] *)
LastColumn(p) == [j \in 1..Len(p) |-> p[j][Len(p[j])]]

(* the traces added to fig: one line per path over self.times, the grid   *)
(* markers, the histogram of the terminal values and, with withDensity,   *)
(* the density evaluated on S = exp(linspace(-3*sigma*sqrt(T), ..., 100)) *)
Figure(paths_, wd) ==
    [lines |-> [j \in 1..Len(paths_) |-> [x |-> times, y |-> paths_[j]]],
     markers |-> Markers,
     histogram |-> [y |-> LastColumn(paths_),
                    histnorm |-> IF wd THEN "probability density" ELSE "probability",
                    nbinsy |-> IF wd THEN << N - 1 >> ELSE << >>],
     density |-> IF wd
                 THEN << blackScholesPdf([expLinspace |-> blackScholesParameters[2],
                                          sqrtOf |-> T, num |-> 100]) >>
                 ELSE << >>]

(* m.plot(withDensity): paths_ = self.paths() *)
Plot(wd) == Enter("plot", N, wd)

----------------------------------------------------------------------------
(* the outermost call of moves has returned: its caller goes on *)

Deliver(who, value, figure) ==
    /\ pc = "return"
    /\ stack = << >>
    /\ caller = who
    /\ pc' = "idle"
    /\ ret' = value
    /\ shown' = figure
    /\ UNCHANGED <<fields, constructed, caller, depth, withDensity, stack, acc, op, exc, args>>

(* moves returns np.append(D, U, axis=0), or the base array *)
MovesDone == Deliver("moves", acc, shown)

(* paths returns p *)
PathsDone == Deliver("paths", paths(acc), shown)

(* plot ends with fig.show() and returns None *)
PlotDone == Deliver("plot", << >>, Figure(paths(acc), withDensity))

----------------------------------------------------------------------------

Next ==
    \/ \E dep \in DepthValues : Moves(dep)
    \/ MovesDefault
    \/ MovesReturnBase
    \/ MovesRecurse
    \/ MovesRecursionError
    \/ MovesReturnCombined
    \/ MovesDone
    \/ Paths
    \/ PathsDone
    \/ BlackScholesParameters
    \/ \E S \in SValues : BlackScholesPdf(S)
    \/ \E wd \in BOOLEAN : Plot(wd)
    \/ PlotDone

Spec == Init /\ [][Next]_vars

(* A client that calls moves alone.  Once moves has been called the        *)
(* interpreter runs it until it returns or raises: the steps below are     *)
(* taken without the client, and each of them changes pc or stack.         *)
MovesRunning ==
    \/ MovesReturnBase
    \/ MovesRecurse
    \/ MovesRecursionError
    \/ MovesReturnCombined
    \/ MovesDone

NextMoves ==
    \/ \E dep \in DepthValues : Moves(dep)
    \/ MovesDefault
    \/ MovesRunning

SpecMoves == Init /\ [][NextMoves]_vars /\ WF_<<pc, stack>>(MovesRunning)

----------------------------------------------------------------------------
(* Properties *)

(* the public method who has returned normally *)
Returned(who) == op = who /\ pc = "idle" /\ exc = "none"

MinusOne == <<-1, 1>>

ValidMoves == RLess(MinusOne, d) /\ RLess(d, u)

(* S0 * product over i < k of (1 + row[i]) *)
RECURSIVE ScaledProduct(_, _)
ScaledProduct(row, k) ==
    IF k = 0 THEN S0 ELSE RMul(ScaledProduct(row, k - 1), RAdd(One, row[k]))

(* C1: after construction gridPoints[k][i] = S0 * (1+d)^(k-i) * (1+u)^i   *)
(* for every k in 0..N and i in 0..k, for every S0 > 0; stated for the     *)
(* lattices with -1 < d < u and N >= 1.                                    *)
C1_GridPointsScaledByS0 ==
    (constructed /\ ValidMoves /\ N >= 1) =>
        \A k \in 0..N : \A i \in 0..k :
            gridPoints[k + 1][i + 1] =
                RMul(S0, RMul(RPow(RAdd(One, d), k - i), RPow(RAdd(One, u), i)))

(* C2: paths()[j][k] = S0 * product over i < k of (1 + moves()[j][i]) for  *)
(* every row j and step k in 0..N; the first column is S0; stated for the   *)
(* lattices with -1 < d < u.                                               *)
C2_PathsStartAtS0 ==
    (Returned("paths") /\ ValidMoves) =>
        \A j \in 1..Len(ret) : \A k \in 0..N :
            ret[j][k + 1] = ScaledProduct(acc[j], k)

(* C3: for every N >= 1, paths() returns exactly 2^N rows of N+1 columns.  *)
C3_PathsShape ==
    (Returned("paths") /\ N >= 1) =>
        /\ Len(ret) = Pow2(N)
        /\ \A j \in 1..Len(ret) : Len(ret[j]) = N + 1

C3_Witness == Returned("paths") /\ N >= 2

(* C4: for N >= 1 every terminal value paths()[j][N] equals                *)
(* gridPoints[N][i] for some i in 0..N.                                    *)
C4_TerminalOnGrid ==
    (Returned("paths") /\ N >= 1) =>
        \A j \in 1..Len(ret) :
            \E i \in 1..Len(gridPoints[N + 1]) :
                ret[j][Len(ret[j])] = gridPoints[N + 1][i]

C4_Witness == Returned("paths") /\ N >= 2 /\ d # u /\ ValidMoves

(* C5: with S0 > 0, d > -1 and u > d, gridPoints[k] has exactly k+1        *)
(* entries, strictly ascending in i, for every k in 0..N.                  *)
C5_GridRowsAscending ==
    (constructed /\ RLess(Zero, S0) /\ ValidMoves) =>
        \A k \in 0..N :
            /\ Len(gridPoints[k + 1]) = k + 1
            /\ \A i \in 1..k : RLess(gridPoints[k + 1][i], gridPoints[k + 1][i + 1])

C5_Witness == constructed /\ RLess(Zero, S0) /\ ValidMoves /\ N >= 2

(* C6: for depth >= 1 and d # u, moves(depth) has 2^depth rows of length   *)
(* depth, no row is repeated and every sequence over {d, u} is a row.      *)
C6_MovesEnumeratesAll ==
    (Returned("moves") /\ depth >= 1 /\ d # u) =>
        /\ Len(ret) = Pow2(depth)
        /\ \A j \in 1..Len(ret) : Len(ret[j]) = depth
        /\ \A j, j2 \in 1..Len(ret) : ret[j] = ret[j2] => j = j2
        /\ \A sq \in [1..depth -> {d, u}] : \E j \in 1..Len(ret) : ret[j] = sq

C6_Witness == Returned("moves") /\ depth >= 2 /\ d # u

(* row a comes before row b in the lexicographic order with d before u *)
LexBefore(a, b) ==
    \E k \in 1..Len(a) :
        /\ \A i \in 1..(k - 1) : a[i] = b[i]
        /\ a[k] = d
        /\ b[k] = u

(* C7: the rows of moves(depth) are in lexicographic order with d before   *)
(* u: the first half of the rows starts with d, the second half with u,    *)
(* the first row is all-d and the last row is all-u.                       *)
C7_MovesLexicographic ==
    (Returned("moves") /\ depth >= 1) =>
        LET half == Pow2(depth - 1) IN
        /\ Len(ret) = 2 * half
        /\ \A j \in 1..half : ret[j][1] = d
        /\ \A j \in (half + 1)..(2 * half) : ret[j][1] = u
        /\ \A k \in 1..depth : ret[1][k] = d /\ ret[2 * half][k] = u
        /\ d # u => \A j, j2 \in 1..Len(ret) : j < j2 => LexBefore(ret[j], ret[j2])

C7_Witness == Returned("moves") /\ depth >= 2 /\ d # u

(* C8: a model with d <= -1 or u <= d is never produced: construction      *)
(* fails with InvalidLatticeParameters.                                    *)
C8_InvalidMovesRejected == constructed => ValidMoves

(* C9: a model with N <= 0 is rejected, so moves() and paths() never run   *)
(* with depth <= 0; stated for the lattices with -1 < d < u.                *)
C9_NoPathsAtNonPositiveDepth ==
    (pc = "call" /\ caller \in {"paths", "plot"} /\ ValidMoves) => stack[1] >= 1

(* C10: after construction no call of moves, paths,                        *)
(* blackScholesParameters, blackScholesPdf or plot, in any number and      *)
(* order, changes S0, r, d, u, T, N, times or gridPoints.                  *)
C10_FieldsNeverChange == [][constructed => UNCHANGED fields]_vars

C10_Witness == op = "blackScholesPdf" /\ shown # << >> /\ N >= 2

----------------------------------------------------------------------------
(* Black-Scholes analytics (src/unnamed/part_002).                         *)
(*                                                                         *)
(* The functions are evaluated in exact real arithmetic on inputs for     *)
(* which every intermediate value has a finite exact form:                 *)
(*   - a scalar is a polynomial in L = ln 2 with rational coefficients,    *)
(*     <<c0, c1, ...>> standing for c0 + c1*L + ...;                       *)
(*   - a value is a scalar plus a combination, with scalar coefficients,   *)
(*     of the numbers norm.cdf(x) and norm.pdf(x), x a scalar;             *)
(*   - a number carries its value, its derivative with respect to the      *)
(*     input chosen as the variable, and the IEEE kind (finite, +inf,      *)
(*     -inf, nan) that a float64 division by zero produces.                *)

RNeg(x) == <<-x[1], x[2]>>

RSub(x, y) == RAdd(x, RNeg(y))

RDiv(x, y) == RMul(x, RInv(y))

RSign(x) == IF x[1] > 0 THEN 1 ELSE IF x[1] < 0 THEN -1 ELSE 0

Max(a, b) == IF a < b THEN b ELSE a

(* 2^k for an integer k of either sign *)
RPow2(k) == IF k >= 0 THEN <<Pow2(k), 1>> ELSE <<1, Pow2(-k)>>

IsPow2(x) == \E k \in (-30)..30 : RPow2(k) = x

Log2(x) == CHOOSE k \in (-30)..30 : RPow2(k) = x

(* the rational square root of a rational square *)
IsSquare(x) == \E n \in 0..x[1] : \E m \in 1..x[2] : n * n = x[1] /\ m * m = x[2]

RSqrt(x) ==
    LET n == CHOOSE n \in 0..x[1] : n * n = x[1]
        m == CHOOSE m \in 1..x[2] : m * m = x[2]
    IN  <<n, m>>

(* scalars: polynomials in L = ln 2 *)

RECURSIVE PTrim(_)
PTrim(p) ==
    IF Len(p) > 1 /\ p[Len(p)] = Zero THEN PTrim(SubSeq(p, 1, Len(p) - 1)) ELSE p

PZero == << Zero >>

POne == << One >>

PRat(x) == << x >>

(* c * ln 2 *)
PLn2(c) == PTrim(<< Zero, c >>)

PCoef(p, i) == IF i >= 1 /\ i <= Len(p) THEN p[i] ELSE Zero

PAdd(p, q) == PTrim([i \in 1..Max(Len(p), Len(q)) |-> RAdd(PCoef(p, i), PCoef(q, i))])

PScale(x, p) == PTrim([i \in 1..Len(p) |-> RMul(x, p[i])])

PNeg(p) == PScale(<<-1, 1>>, p)

PSub(p, q) == PAdd(p, PNeg(q))

RECURSIVE PConv(_, _, _, _)
PConv(p, q, i, j) ==
    IF j > Len(p) THEN Zero
    ELSE RAdd(RMul(p[j], PCoef(q, i - j + 1)), PConv(p, q, i, j + 1))

PMul(p, q) == PTrim([i \in 1..(Len(p) + Len(q) - 1) |-> PConv(p, q, i, 1)])

PIsRat(p) == Len(p) = 1

(* the sign of the real number p, for p rational or a multiple of ln 2 *)
PSignKnown(p) == PIsRat(p) \/ (Len(p) = 2 /\ p[1] = Zero)

PSign(p) == IF PIsRat(p) THEN RSign(p[1]) ELSE RSign(p[2])

(* one of p, -p is canonical: the one whose leading coefficient is positive *)
PCanonical(p) == RSign(p[Len(p)]) >= 0

(* exp(p) is rational when p is an integer multiple of ln 2 *)
PExpKnown(p) == p = PZero \/ (Len(p) = 2 /\ p[1] = Zero /\ p[2][2] = 1)

PExp(p) == IF p = PZero THEN One ELSE RPow2(p[2][1])

(* values: a scalar plus scalar multiples of norm.cdf(x) and norm.pdf(x).  *)
(* A term [f, x, k] stands for k * f(x); at most one term per (f, x), no   *)
(* term with k = 0.  norm.cdf(-x) = 1 - norm.cdf(x) and                    *)
(* norm.pdf(-x) = norm.pdf(x) turn every argument into the canonical one   *)
(* of x, -x; norm.cdf(0) = 1/2.  The term "unsupported" marks a value with *)
(* no exact form in this arithmetic; it equals no supported value.         *)

LConst(p) == [c |-> p, t |-> {}]

LZero == LConst(PZero)

LTerm(f, x) == [c |-> PZero, t |-> {[f |-> f, x |-> x, k |-> POne]}]

LUnsupported == LTerm("unsupported", PZero)

LIsScalar(a) == a.t = {}

LKeys(a) == {<<e.f, e.x>> : e \in a.t}

LCoef(a, key) ==
    IF \E e \in a.t : <<e.f, e.x>> = key
    THEN (CHOOSE e \in a.t : <<e.f, e.x>> = key).k
    ELSE PZero

LAdd(a, b) ==
    [c |-> PAdd(a.c, b.c),
     t |-> {[f |-> key[1], x |-> key[2], k |-> PAdd(LCoef(a, key), LCoef(b, key))] :
                key \in {kk \in LKeys(a) \cup LKeys(b) :
                            PAdd(LCoef(a, kk), LCoef(b, kk)) # PZero}}]

LScale(p, a) ==
    IF p = PZero THEN LZero
    ELSE [c |-> PMul(p, a.c),
          t |-> {[f |-> e.f, x |-> e.x, k |-> PMul(p, e.k)] : e \in a.t}]

LNeg(a) == LScale(PRat(<<-1, 1>>), a)

LSub(a, b) == LAdd(a, LNeg(b))

LMul(a, b) ==
    IF LIsScalar(a) THEN LScale(a.c, b)
    ELSE IF LIsScalar(b) THEN LScale(b.c, a)
    ELSE LUnsupported

(* ln 2 lies strictly between these two rationals *)
LnTwoBelow == <<69, 100>>

LnTwoAbove == <<7, 10>>

(* an upper and a lower bound of the scalar q + c*ln2 *)
PUpper(p) ==
    IF PIsRat(p) THEN p[1]
    ELSE RAdd(p[1], RMul(p[2], IF RSign(p[2]) > 0 THEN LnTwoAbove ELSE LnTwoBelow))

PLower(p) ==
    IF PIsRat(p) THEN p[1]
    ELSE RAdd(p[1], RMul(p[2], IF RSign(p[2]) > 0 THEN LnTwoBelow ELSE LnTwoAbove))

(* binary64 has no positive number below 2^-1074, and norm.cdf(-40) and    *)
(* norm.pdf(40) lie below it: from 40 standard deviations on, norm.cdf     *)
(* returns exactly 0.0 or 1.0 and norm.pdf exactly 0.0                     *)
SaturationPoint == <<40, 1>>

SaturatesLow(x) == Len(x) <= 2 /\ RLeq(PUpper(x), RNeg(SaturationPoint))

SaturatesHigh(x) == Len(x) <= 2 /\ RLeq(SaturationPoint, PLower(x))

(* norm.cdf(x) *)
LCdf(x) ==
    IF SaturatesLow(x) THEN LZero
    ELSE IF SaturatesHigh(x) THEN LConst(POne)
    ELSE IF x = PZero THEN LConst(PRat(<<1, 2>>))
    ELSE IF PCanonical(x) THEN LTerm("cdf", x)
    ELSE LSub(LConst(POne), LTerm("cdf", PNeg(x)))

(* norm.pdf(x) *)
LPdf(x) ==
    IF SaturatesLow(x) \/ SaturatesHigh(x) THEN LZero
    ELSE IF PCanonical(x) THEN LTerm("pdf", x)
    ELSE LTerm("pdf", PNeg(x))

(* norm.pdf(y) = norm.pdf(x) * exp((x*x - y*y)/2): every pdf term whose    *)
(* ratio to the chosen base term is rational is folded into the base term  *)
PdfRatioExponent(x, y) ==
    IF x = y THEN PZero ELSE PScale(<<1, 2>>, PSub(PMul(x, x), PMul(y, y)))

RECURSIVE PdfFold(_, _)
PdfFold(base, terms) ==
    IF terms = {} THEN PZero
    ELSE LET e == CHOOSE e \in terms : TRUE
         IN  PAdd(PScale(PExp(PdfRatioExponent(base.x, e.x)), e.k),
                  PdfFold(base, terms \ {e}))

LNormPdf(a) ==
    LET pdfs == {e \in a.t : e.f = "pdf"} IN
    IF pdfs = {} THEN a
    ELSE LET base == CHOOSE e \in pdfs : TRUE
             fold == {e \in pdfs : PExpKnown(PdfRatioExponent(base.x, e.x))}
             k == PdfFold(base, fold)
         IN  [c |-> a.c,
              t |-> (a.t \ fold) \cup
                    (IF k = PZero THEN {} ELSE {[f |-> "pdf", x |-> base.x, k |-> k]})]

(* a and b are the same real number *)
LEqual(a, b) == LNormPdf(LSub(a, b)) = LZero

(* numbers: a binary64 kind (finite, +inf, -inf, nan), the value, and the  *)
(* derivative of the value in the input the caller differentiates by       *)

Fin(v, dv) == [k |-> "fin", v |-> v, dv |-> dv]

NInf == [k |-> "inf", v |-> LZero, dv |-> LZero]

NNegInf == [k |-> "ninf", v |-> LZero, dv |-> LZero]

NNan == [k |-> "nan", v |-> LZero, dv |-> LZero]

NUnsupported == Fin(LUnsupported, LUnsupported)

NConst(x) == Fin(LConst(PRat(x)), LZero)

NScalar(p, seed) == Fin(LConst(p), LConst(PRat(<<seed, 1>>)))

NIsScalar(a) == a.k = "fin" /\ LIsScalar(a.v)

NIsRat(a) == NIsScalar(a) /\ PIsRat(a.v.c)

NSupported(a) ==
    a.k # "fin" \/ \A e \in a.v.t \cup a.dv.t : e.f # "unsupported"

(* the sign of a number: 1, -1, 0, or 2 when it is not known *)
NSign(a) ==
    IF a.k = "inf" THEN 1
    ELSE IF a.k = "ninf" THEN -1
    ELSE IF NIsScalar(a) /\ PSignKnown(a.v.c) THEN PSign(a.v.c)
    ELSE 2

NOfSign(sgn) == IF sgn > 0 THEN NInf ELSE NNegInf

NNeg(a) ==
    IF a.k = "fin" THEN Fin(LNeg(a.v), LNeg(a.dv))
    ELSE IF a.k = "inf" THEN NNegInf
    ELSE IF a.k = "ninf" THEN NInf
    ELSE NNan

NAdd(a, b) ==
    IF a.k = "nan" \/ b.k = "nan" THEN NNan
    ELSE IF a.k = "fin" /\ b.k = "fin" THEN Fin(LAdd(a.v, b.v), LAdd(a.dv, b.dv))
    ELSE IF a.k = "fin" THEN b
    ELSE IF b.k = "fin" \/ a.k = b.k THEN a
    ELSE NNan

NSub(a, b) == NAdd(a, NNeg(b))

NMul(a, b) ==
    IF a.k = "nan" \/ b.k = "nan" THEN NNan
    ELSE IF a.k = "fin" /\ b.k = "fin"
    THEN Fin(LMul(a.v, b.v), LAdd(LMul(a.dv, b.v), LMul(a.v, b.dv)))
    ELSE IF NSign(a) = 2 \/ NSign(b) = 2 THEN NUnsupported
    ELSE IF NSign(a) * NSign(b) = 0 THEN NNan
    ELSE NOfSign(NSign(a) * NSign(b))

(* a / b; nu = sigma*sqrt(T) is never -0.0, so a zero divisor is +0.0 *)
NDiv(a, b) ==
    IF a.k = "nan" \/ b.k = "nan" THEN NNan
    ELSE IF b.k # "fin"
    THEN IF a.k = "fin" THEN NConst(Zero) ELSE NNan
    ELSE IF ~NIsRat(b) THEN NUnsupported
    ELSE IF b.v.c[1] = Zero
    THEN IF NSign(a) = 2 THEN NUnsupported
         ELSE IF NSign(a) = 0 THEN NNan
         ELSE NOfSign(NSign(a))
    ELSE IF a.k # "fin" THEN NOfSign(NSign(a) * NSign(b))
    ELSE LET inv == PRat(RInv(b.v.c[1]))
             quot == LScale(inv, a.v)
         IN  Fin(quot, LScale(inv, LSub(a.dv, LMul(quot, b.dv))))

(* np.exp *)
NExp(a) ==
    IF NIsScalar(a) /\ PExpKnown(a.v.c)
    THEN Fin(LConst(PRat(PExp(a.v.c))), LScale(PRat(PExp(a.v.c)), a.dv))
    ELSE NUnsupported

(* np.log *)
NLog(a) ==
    IF a.k = "nan" THEN NNan
    ELSE IF ~NIsRat(a) THEN NUnsupported
    ELSE IF a.v.c[1] = Zero THEN NNegInf
    ELSE IF RSign(a.v.c[1]) < 0 THEN NNan
    ELSE IF IsPow2(a.v.c[1])
    THEN Fin(LConst(PLn2(<<Log2(a.v.c[1]), 1>>)), LScale(PRat(RInv(a.v.c[1])), a.dv))
    ELSE NUnsupported

(* np.sqrt; the derivative at 0 has no finite value *)
NSqrt(a) ==
    IF a.k = "nan" THEN NNan
    ELSE IF ~NIsRat(a) THEN NUnsupported
    ELSE IF RSign(a.v.c[1]) < 0 THEN NNan
    ELSE IF ~IsSquare(a.v.c[1]) THEN NUnsupported
    ELSE IF a.v.c[1] = Zero
    THEN Fin(LZero, IF a.dv = LZero THEN LZero ELSE LUnsupported)
    ELSE Fin(LConst(PRat(RSqrt(a.v.c[1]))),
             LScale(PRat(RInv(RMul(<<2, 1>>, RSqrt(a.v.c[1])))), a.dv))

(* norm.cdf *)
NCdf(a) ==
    IF a.k = "nan" THEN NNan
    ELSE IF a.k = "inf" THEN NConst(One)
    ELSE IF a.k = "ninf" THEN NConst(Zero)
    ELSE IF ~NIsScalar(a) THEN NUnsupported
    ELSE Fin(LCdf(a.v.c), LMul(LPdf(a.v.c), a.dv))

(* norm.pdf *)
NPdf(a) ==
    IF a.k = "nan" THEN NNan
    ELSE IF a.k # "fin" THEN NConst(Zero)
    ELSE IF ~NIsScalar(a) THEN NUnsupported
    ELSE Fin(LPdf(a.v.c), LMul(LScale(PNeg(a.v.c), LPdf(a.v.c)), a.dv))

(* np.maximum(a, 0.0); the derivative at the kink has no value *)
NMaximum(a) ==
    IF a.k = "nan" THEN NNan
    ELSE IF NSign(a) = 2 THEN NUnsupported
    ELSE IF NSign(a) > 0 THEN a
    ELSE IF NSign(a) < 0 THEN NConst(Zero)
    ELSE Fin(LZero, IF a.dv = LZero THEN LZero ELSE LUnsupported)

(* ceil(n / 10^k), without forming 10^k *)
RECURSIVE CeilDivPow10(_, _)
CeilDivPow10(n, k) == IF k = 0 THEN n ELSE CeilDivPow10((n + 9) \div 10, k - 1)

(* x < 10^(-k) for a rational x *)
BelowPow10(x, k) == x[1] < CeilDivPow10(x[2], k)

(* the functions of the notebook *)

NTwo == NConst(<<2, 1>>)

(* nu<1.0e-12 *)
NIsZeroVariance(nu) == NIsRat(nu) /\ BelowPow10(nu.v.c[1], 12)

(* BlackOverK passing d1 and d2 to norm.cdf without the factor callOrPut *)
BlackOverKUnsignedArguments(moneyness, nu, callOrPut) ==
    LET d1 == NAdd(NDiv(NLog(moneyness), nu), NDiv(nu, NTwo))
        d2 == NSub(d1, nu)
    IN  NMul(callOrPut, NSub(NMul(moneyness, NCdf(d1)), NCdf(d2)))

BlackOverK(moneyness, nu, callOrPut) ==
    LET d1 == NAdd(NDiv(NLog(moneyness), nu), NDiv(nu, NTwo))
        d2 == NSub(d1, nu)
    IN  NMul(callOrPut,
             NSub(NMul(moneyness, NCdf(NMul(callOrPut, d1))),
                  NCdf(NMul(callOrPut, d2))))

(* Black without the zero-variance branch *)
BlackAlwaysRegular(forward, strike, nu, callOrPut) ==
    NMul(strike, BlackOverK(NDiv(forward, strike), nu, callOrPut))

Black(forward, strike, nu, callOrPut) ==
    IF NIsZeroVariance(nu)
    THEN NMaximum(NMul(callOrPut, NSub(forward, strike)))
    ELSE NMul(strike, BlackOverK(NDiv(forward, strike), nu, callOrPut))

(* BlackScholesPrice passing the underlying, not the forward, to Black *)
BlackScholesPriceOfSpot(underlying, strike, rate, sigma, T_, callOrPut) ==
    LET df == NExp(NMul(NNeg(rate), T_))
        nu == NMul(sigma, NSqrt(T_))
    IN  NMul(df, Black(underlying, strike, nu, callOrPut))

BlackScholesPrice(underlying, strike, rate, sigma, T_, callOrPut) ==
    LET df == NExp(NMul(NNeg(rate), T_))
        nu == NMul(sigma, NSqrt(T_))
    IN  NMul(df, Black(NDiv(underlying, df), strike, nu, callOrPut))

BlackScholesDelta(underlying, strike, rate, sigma, T_, callOrPut) ==
    LET moneyness == NDiv(NMul(NExp(NMul(rate, T_)), underlying), strike)
        nu == NMul(sigma, NSqrt(T_))
        d1 == NAdd(NDiv(NLog(moneyness), nu), NDiv(nu, NTwo))
    IN  NMul(callOrPut, NCdf(NMul(callOrPut, d1)))

BlackScholesGamma(underlying, strike, rate, sigma, T_, callOrPut) ==
    LET moneyness == NDiv(NMul(NExp(NMul(rate, T_)), underlying), strike)
        nu == NMul(sigma, NSqrt(T_))
        d1 == NAdd(NDiv(NLog(moneyness), nu), NDiv(nu, NTwo))
    IN  NDiv(NDiv(NPdf(d1), underlying), nu)

(* BlackScholesTheta without the term of the rate *)
BlackScholesThetaWithoutCarry(underlying, strike, rate, sigma, T_, callOrPut) ==
    LET moneyness == NDiv(NMul(NExp(NMul(rate, T_)), underlying), strike)
        nu == NMul(sigma, NSqrt(T_))
        d1 == NAdd(NDiv(NLog(moneyness), nu), NDiv(nu, NTwo))
    IN  NDiv(NDiv(NMul(NMul(underlying, NPdf(d1)), sigma), NTwo), NSqrt(T_))

BlackScholesTheta(underlying, strike, rate, sigma, T_, callOrPut) ==
    LET moneyness == NDiv(NMul(NExp(NMul(rate, T_)), underlying), strike)
        nu == NMul(sigma, NSqrt(T_))
        d1 == NAdd(NDiv(NLog(moneyness), nu), NDiv(nu, NTwo))
        d2 == NSub(d1, nu)
    IN  NAdd(NDiv(NDiv(NMul(NMul(underlying, NPdf(d1)), sigma), NTwo), NSqrt(T_)),
             NMul(NMul(NMul(NMul(callOrPut, rate), strike), NExp(NMul(NNeg(rate), T_))),
                  NCdf(NMul(callOrPut, d2))))

BlackScholesRho(underlying, strike, rate, sigma, T_, callOrPut) ==
    LET moneyness == NDiv(NMul(NExp(NMul(rate, T_)), underlying), strike)
        nu == NMul(sigma, NSqrt(T_))
        d1 == NAdd(NDiv(NLog(moneyness), nu), NDiv(nu, NTwo))
        d2 == NSub(d1, nu)
    IN  NMul(NMul(NMul(NMul(callOrPut, strike), T_), NExp(NMul(NNeg(rate), T_))),
             NCdf(NMul(callOrPut, d2)))

BlackScholesVega(underlying, strike, rate, sigma, T_, callOrPut) ==
    LET moneyness == NDiv(NMul(NExp(NMul(rate, T_)), underlying), strike)
        nu == NMul(sigma, NSqrt(T_))
        d1 == NAdd(NDiv(NLog(moneyness), nu), NDiv(nu, NTwo))
    IN  NMul(NMul(underlying, NPdf(d1)), NSqrt(T_))

----------------------------------------------------------------------------
(* Calls of the notebook's functions *)

(* rates are multiples of ln 2 and maturities squares, so that exp(-rate*T), *)
(* sqrt(T) and log(moneyness) are scalars                                    *)
UnderlyingValues == { <<1, 2>>, <<1, 1>>, <<2, 1>> }

StrikeValues == { <<1, 1>>, <<2, 1>> }

RateValues == { -1, 0, 1 }

SigmaValues == { <<0, 1>>, <<1, 16>>, <<1, 2>>, <<1, 1>> }

MaturityValues == { <<0, 1>>, <<1, 4>>, <<1, 1>>, <<4, 1>> }

CallOrPutValues == { 1, -1 }

PricingInputs ==
    { in \in [underlying : UnderlyingValues, strike : StrikeValues, rate : RateValues,
              sigma : SigmaValues, T : MaturityValues, callOrPut : CallOrPutValues] :
          in.rate = 0 \/ in.T[2] = 1 }

ForwardValues == { <<1, 4>>, <<1, 1>>, <<2, 1>> }

NuValues == { <<-1, 2>>, <<0, 1>>, <<1, 32>>, <<1, 2>>, <<2, 1>> }

BlackInputs ==
    [forward : ForwardValues, strike : StrikeValues, nu : NuValues,
     callOrPut : CallOrPutValues]

Seed(wrt, name) == IF wrt = name THEN 1 ELSE 0

(* f(underlying, strike, rate, sigma, T, callOrPut) at the input in,        *)
(* differentiated by the argument named wrt                                  *)
NUnderlying(in, wrt) == NScalar(PRat(in.underlying), Seed(wrt, "underlying"))

NStrike(in) == NConst(in.strike)

NRate(in, wrt) == NScalar(PLn2(<<in.rate, 1>>), Seed(wrt, "rate"))

NSigma(in, wrt) == NScalar(PRat(in.sigma), Seed(wrt, "sigma"))

NMaturity(in, wrt) == NScalar(PRat(in.T), Seed(wrt, "T"))

NCallOrPut(in) == NConst(<<in.callOrPut, 1>>)

PriceAt(in, wrt) ==
    BlackScholesPrice(NUnderlying(in, wrt), NStrike(in), NRate(in, wrt),
                      NSigma(in, wrt), NMaturity(in, wrt), NCallOrPut(in))

DeltaAt(in) ==
    BlackScholesDelta(NUnderlying(in, "none"), NStrike(in), NRate(in, "none"),
                      NSigma(in, "none"), NMaturity(in, "none"), NCallOrPut(in))

GammaAt(in) ==
    BlackScholesGamma(NUnderlying(in, "none"), NStrike(in), NRate(in, "none"),
                      NSigma(in, "none"), NMaturity(in, "none"), NCallOrPut(in))

ThetaAt(in) ==
    BlackScholesTheta(NUnderlying(in, "none"), NStrike(in), NRate(in, "none"),
                      NSigma(in, "none"), NMaturity(in, "none"), NCallOrPut(in))

RhoAt(in) ==
    BlackScholesRho(NUnderlying(in, "none"), NStrike(in), NRate(in, "none"),
                    NSigma(in, "none"), NMaturity(in, "none"), NCallOrPut(in))

VegaAt(in) ==
    BlackScholesVega(NUnderlying(in, "none"), NStrike(in), NRate(in, "none"),
                     NSigma(in, "none"), NMaturity(in, "none"), NCallOrPut(in))

BlackAt(in) ==
    Black(NConst(in.forward), NConst(in.strike), NConst(in.nu), NCallOrPut(in))

(* a cell calls a function of the notebook, which returns value *)
Apply(who, in, value) ==
    /\ pc = "idle"
    /\ pc' = "evaluated"
    /\ op' = who
    /\ args' = in
    /\ ret' = value
    /\ exc' = "none"
    /\ UNCHANGED <<fields, constructed, caller, depth, withDensity, stack, acc, shown>>

(* a cell calls a function of the notebook, which raises error *)
Raise(who, in, error) ==
    /\ pc = "idle"
    /\ pc' = "evaluated"
    /\ op' = who
    /\ args' = in
    /\ ret' = << >>
    /\ exc' = error
    /\ UNCHANGED <<fields, constructed, caller, depth, withDensity, stack, acc, shown>>

(* the cell is done; the notebook is ready to evaluate another one *)
NextCell ==
    /\ pc = "evaluated"
    /\ pc' = "idle"
    /\ op' = "none"
    /\ args' = << >>
    /\ ret' = << >>
    /\ exc' = "none"
    /\ UNCHANGED <<fields, constructed, caller, depth, withDensity, stack, acc, shown>>

CallBlack == \E in \in BlackInputs : Apply("Black", in, BlackAt(in))

CallBlackScholesPrice ==
    \E in \in PricingInputs : Apply("BlackScholesPrice", in, PriceAt(in, "none"))

CallBlackScholesDelta ==
    \E in \in PricingInputs : Apply("BlackScholesDelta", in, DeltaAt(in))

CallBlackScholesGamma ==
    \E in \in PricingInputs : Apply("BlackScholesGamma", in, GammaAt(in))

CallBlackScholesTheta ==
    \E in \in PricingInputs : Apply("BlackScholesTheta", in, ThetaAt(in))

CallBlackScholesRho ==
    \E in \in PricingInputs : Apply("BlackScholesRho", in, RhoAt(in))

CallBlackScholesVega ==
    \E in \in PricingInputs : Apply("BlackScholesVega", in, VegaAt(in))

(* BlackImpliedVol.  The price to invert is one Black attains at the total *)
(* standard deviation price.sigma*sqrt(T), or one below, or one above,     *)
(* every price Black attains.                                              *)
PriceKinds == { "below", "black", "above" }

QuotedSigmaValues == { <<1, 200>>, <<1, 100>>, <<1, 16>>, <<1, 2>>, <<1, 1>>, <<2, 1>> }

PriceValues ==
    { p \in [kind : PriceKinds, sigma : QuotedSigmaValues \cup {Zero}] :
          (p.kind = "black") = (p.sigma # Zero) }

ImpliedVolMaturityValues == { <<0, 1>>, <<1, 4>>, <<1, 1>> }

ImpliedVolInputs ==
    [price : PriceValues, strike : { One }, forward : ForwardValues,
     T : ImpliedVolMaturityValues, callOrPut : CallOrPutValues]

(* Black(forward, strike, nu, callOrPut) for a rational nu *)
BlackOfInput(in, nu) ==
    Black(NConst(in.forward), NConst(in.strike), NConst(nu), NCallOrPut(in))

(* the total standard deviation at which Black attains the price *)
QuotedNu(in) == RMul(in.price.sigma, RSqrt(in.T))

(* the sign of objective(nu) = Black(forward, strike, nu, callOrPut) - price; *)
(* where the two values differ, Black increases with nu                       *)
ObjectiveSign(in, nu) ==
    IF in.price.kind = "below" THEN 1
    ELSE IF in.price.kind = "above" THEN -1
    ELSE IF LEqual(BlackOfInput(in, nu).v, BlackOfInput(in, QuotedNu(in)).v) THEN 0
    ELSE IF RLess(nu, QuotedNu(in)) THEN -1
    ELSE 1

(* xtol=1.0e-8 *)
Xtol == <<1, 100000000>>

(* Brentq returning the nearer end of the bracket where it has no sign change *)
BrentqClamping(in, a, b) ==
    IF ObjectiveSign(in, a) * ObjectiveSign(in, b) > 0
    THEN [raise |-> FALSE, x |-> IF ObjectiveSign(in, a) > 0 THEN a ELSE b, within |-> Zero]
    ELSE IF ObjectiveSign(in, a) = 0 THEN [raise |-> FALSE, x |-> a, within |-> Zero]
    ELSE IF ObjectiveSign(in, b) = 0 THEN [raise |-> FALSE, x |-> b, within |-> Zero]
    ELSE [raise |-> FALSE, x |-> QuotedNu(in), within |-> Xtol]

(* scipy.optimize.brentq(objective, a, b, xtol): "raise" when objective(a)  *)
(* and objective(b) have the same sign, an end of the bracket where the     *)
(* objective is 0.0, and otherwise a point no further than xtol from the    *)
(* zero of the objective (the relative tolerance, 4 ulp, is not resolved)   *)
Brentq(in, a, b) ==
    IF ObjectiveSign(in, a) * ObjectiveSign(in, b) > 0 THEN [raise |-> TRUE]
    ELSE IF ObjectiveSign(in, a) = 0 THEN [raise |-> FALSE, x |-> a, within |-> Zero]
    ELSE IF ObjectiveSign(in, b) = 0 THEN [raise |-> FALSE, x |-> b, within |-> Zero]
    ELSE [raise |-> FALSE, x |-> QuotedNu(in), within |-> Xtol]

BracketLow(in) == RMul(<<1, 100>>, RSqrt(in.T))

(* BracketHigh without the factor np.sqrt(T) *)
BracketHighWithoutSqrt(in) == <<1, 1>>

BracketHigh(in) == RMul(<<1, 1>>, RSqrt(in.T))

(* brentq(...) / np.sqrt(T), for the root brentq returned: the number, how *)
(* far the value the caller gets may lie from it, and the least and the    *)
(* greatest value the caller may get, brentq returning a point of its      *)
(* bracket whatever the tolerance                                          *)
BlackImpliedVol(in, root) ==
    [vol |-> NDiv(NConst(root.x), NSqrt(NConst(in.T))),
     within |-> IF root.within = Zero THEN Zero ELSE RDiv(root.within, RSqrt(in.T)),
     low |-> NDiv(NConst(BracketLow(in)), NSqrt(NConst(in.T))),
     high |-> NDiv(NConst(BracketHigh(in)), NSqrt(NConst(in.T)))]

CallBlackImpliedVol ==
    \E in \in ImpliedVolInputs :
        /\ pc = "idle"
        /\ \E root \in { Brentq(in, BracketLow(in), BracketHigh(in)) } :
              IF root.raise
              THEN Raise("BlackImpliedVol", in, "ValueError")
              ELSE Apply("BlackImpliedVol", in, BlackImpliedVol(in, root))

(* safeImpliedVolatility (src/BlackScholesModel/DaxOptions.ipynb); what    *)
(* option.impliedVolatility(price, process) does is the oracle's choice    *)
OracleVolValues == { <<1, 16>>, <<1, 2>> }

OracleOutcomes ==
    { o \in [raises : BOOLEAN, vol : OracleVolValues \cup {Zero}] :
          o.raises = (o.vol = Zero) }

None == << >>

safeImpliedVolatility(oracle) == IF oracle.raises THEN None ELSE oracle.vol

(* safeImpliedVolatility without the try statement *)
SafeImpliedVolatilityUnguarded ==
    \E oracle \in OracleOutcomes :
        IF oracle.raises
        THEN Raise("safeImpliedVolatility", oracle, "RuntimeError")
        ELSE Apply("safeImpliedVolatility", oracle, oracle.vol)

SafeImpliedVolatility ==
    \E oracle \in OracleOutcomes :
        Apply("safeImpliedVolatility", oracle, safeImpliedVolatility(oracle))

InitBS ==
    /\ S0 = One
    /\ r = Zero
    /\ d = Zero
    /\ u = Zero
    /\ T = One
    /\ N = 0
    /\ constructed = FALSE
    /\ times = << >>
    /\ gridPoints = << >>
    /\ pc = "idle"
    /\ caller = "none"
    /\ depth = 0
    /\ withDensity = FALSE
    /\ stack = << >>
    /\ acc = << >>
    /\ op = "none"
    /\ ret = << >>
    /\ exc = "none"
    /\ shown = << >>
    /\ args = << >>

NextBS ==
    \/ CallBlack
    \/ CallBlackScholesPrice
    \/ CallBlackScholesDelta
    \/ CallBlackScholesGamma
    \/ CallBlackScholesTheta
    \/ CallBlackScholesRho
    \/ CallBlackScholesVega
    \/ CallBlackImpliedVol
    \/ SafeImpliedVolatility
    \/ NextCell

SpecBS == InitBS /\ [][NextBS]_vars

----------------------------------------------------------------------------
(* Properties of the Black-Scholes analytics *)

(* the cell that called who is evaluated and who returned normally *)
Evaluated(who) == op = who /\ pc = "evaluated" /\ exc = "none"

(* the cell that called who is evaluated, whether who returned or raised *)
Called(who) == op = who /\ pc = "evaluated"

(* e^(-rate*T) = 2^(-c*T) for rate = c * ln 2 *)
DiscountFactor(in) == RPow2(-(in.rate * in.T[1]))

RMax(x, y) == IF RLess(x, y) THEN y ELSE x

Signed(phi, x) == IF phi = 1 THEN x ELSE RNeg(x)

ZeroTotalVariance(in) == in.sigma = Zero \/ in.T = Zero

(* C11: put-call parity. For every S > 0, K > 0, rate, sigma >= 0 and       *)
(* T >= 0 the call price minus the put price is S - K*e^(-rT), in the       *)
(* regular branch of Black and in its zero-variance branch. The price the   *)
(* cell computed is taken from ret, the price of the opposite option is     *)
(* computed for the same arguments.                                         *)
C11_PutCallParity ==
    Evaluated("BlackScholesPrice") =>
        LET other == PriceAt([args EXCEPT !.callOrPut = -args.callOrPut], "none")
            diff == IF args.callOrPut = 1 THEN NSub(ret, other) ELSE NSub(other, ret)
        IN  /\ diff.k = "fin"
            /\ LEqual(diff.v,
                      LConst(PRat(RSub(args.underlying,
                                       RMul(args.strike, DiscountFactor(args))))))

(* a call priced in the regular branch, with a rate that discounts *)
C11_Witness ==
    /\ Evaluated("BlackScholesPrice")
    /\ args.sigma = <<1, 2>>
    /\ args.T = One
    /\ args.rate = 1
    /\ args.callOrPut = 1
    /\ ret.v.t # {}

(* C12: Black(F, K, nu, phi) takes the degenerate branch exactly when       *)
(* nu < 1e-12 and then returns max(phi*(F-K), 0), a finite number that no   *)
(* division by nu has turned into an infinity or a NaN; for nu >= 1e-12 it  *)
(* returns K * BlackOverK(F/K, nu, phi).                                    *)
C12_BlackBranches ==
    Evaluated("Black") =>
        IF BelowPow10(args.nu, 12)
        THEN ret = NConst(RMax(Signed(args.callOrPut, RSub(args.forward, args.strike)),
                               Zero))
        ELSE ret = NMul(NConst(args.strike),
                        BlackOverK(NDiv(NConst(args.forward), NConst(args.strike)),
                                   NConst(args.nu), NCallOrPut(args)))

(* at the money with nu = 0, where log(F/K)/nu would be 0/0 *)
C12_Witness ==
    /\ Evaluated("Black")
    /\ args.nu = Zero
    /\ args.forward = args.strike
    /\ ret = NConst(Zero)

(* C13: with zero total variance (sigma = 0 or T = 0) BlackScholesPrice    *)
(* returns e^(-rT) * max(phi*(S*e^(rT) - K), 0), a finite number.          *)
C13_ZeroVariancePrice ==
    (Evaluated("BlackScholesPrice") /\ ZeroTotalVariance(args)) =>
        ret = NConst(RMul(DiscountFactor(args),
                          RMax(Signed(args.callOrPut,
                                      RSub(RDiv(args.underlying, DiscountFactor(args)),
                                           args.strike)),
                               Zero)))

(* sigma = 0 with a rate that discounts and an option in the money *)
C13_Witness ==
    /\ Evaluated("BlackScholesPrice")
    /\ args.sigma = Zero
    /\ args.T = One
    /\ args.rate = 1
    /\ ret.v.c # PZero

RAbs(x) == IF x[1] < 0 THEN RNeg(x) ELSE x

(* C14: implied-volatility round trip. For every sigma in (0.05, 1.0),      *)
(* T in (0.1, 2), K > 0, F > 0 and phi, BlackImpliedVol applied to          *)
(* Black(F, K, sigma*sqrt(T), phi) returns a value within 1e-6 of sigma.    *)
C14_ImpliedVolRoundTrip ==
    ( /\ Called("BlackImpliedVol")
      /\ args.price.kind = "black"
      /\ RLess(<<1, 20>>, args.price.sigma) /\ RLess(args.price.sigma, One)
      /\ RLess(<<1, 10>>, args.T) /\ RLess(args.T, <<2, 1>>) ) =>
        /\ exc = "none"
        /\ NIsRat(ret.vol)
        /\ RLeq(RAdd(RAbs(RSub(ret.vol.v.c[1], args.price.sigma)), ret.within),
                <<1, 1000000>>)

(* the price lies below Black(F,K,0.01*sqrt(T),phi) or above                *)
(* Black(F,K,1.00*sqrt(T),phi)                                              *)
PriceOutsideBracket(in) ==
    \/ in.price.kind = "below"
    \/ in.price.kind = "above"
    \/ /\ in.price.kind = "black"
       /\ RLess(QuotedNu(in), BracketLow(in))
       /\ ~LEqual(BlackOfInput(in, QuotedNu(in)).v, BlackOfInput(in, BracketLow(in)).v)
    \/ /\ in.price.kind = "black"
       /\ RLess(BracketHigh(in), QuotedNu(in))
       /\ ~LEqual(BlackOfInput(in, QuotedNu(in)).v, BlackOfInput(in, BracketHigh(in)).v)

(* C15: whenever the price lies outside                                     *)
(* [Black(F,K,0.01*sqrt(T),phi), Black(F,K,1.00*sqrt(T),phi)],              *)
(* BlackImpliedVol fails with the root finder's error (brentq's ValueError, *)
(* the specification's NoRootInBracket); the error reaches the caller and   *)
(* no volatility is returned.                                               *)
C15_NoRootInBracket ==
    (Called("BlackImpliedVol") /\ PriceOutsideBracket(args)) =>
        exc = "ValueError" /\ ret = << >>

(* a price Black attains only at twice the upper end of the bracket *)
C15_Witness ==
    /\ Called("BlackImpliedVol")
    /\ args.price.kind = "black"
    /\ args.price.sigma = <<2, 1>>
    /\ args.T = One
    /\ exc = "ValueError"

Greeks ==
    { "BlackScholesDelta", "BlackScholesGamma", "BlackScholesTheta", "BlackScholesRho",
      "BlackScholesVega" }

PositiveTotalVariance(in) == RSign(in.sigma) > 0 /\ RSign(in.T) > 0

(* C17 as stated: Theta is the negative time-derivative of the price, for   *)
(* all valid inputs BlackScholesTheta = - d/dT BlackScholesPrice, T being   *)
(* the time to maturity.                                                    *)
C17_ThetaIsNegativeTimeDerivative ==
    (Evaluated("BlackScholesTheta") /\ PositiveTotalVariance(args)) =>
        /\ ret.k = "fin"
        /\ LEqual(ret.v, LNeg(PriceAt(args, "T").dv))

(* C17 as the code has it: for sigma > 0 and T > 0, BlackScholesTheta is    *)
(* the derivative of BlackScholesPrice in the time to maturity T itself,    *)
(* BlackScholesTheta = + d/dT BlackScholesPrice.                            *)
C17_ThetaIsTimeDerivative ==
    (Evaluated("BlackScholesTheta") /\ PositiveTotalVariance(args)) =>
        /\ ret.k = "fin"
        /\ PriceAt(args, "T").k = "fin"
        /\ LEqual(ret.v, PriceAt(args, "T").dv)

(* a Theta with both of its terms: the rate is not 0 and d1 is moderate *)
C17_Witness ==
    /\ Evaluated("BlackScholesTheta")
    /\ args.sigma = <<1, 2>>
    /\ args.T = One
    /\ args.rate = 1
    /\ \E e \in ret.v.t : e.f = "pdf"
    /\ \E e \in ret.v.t : e.f = "cdf"

(* C18: when sigma*sqrt(T) is zero (sigma = 0 or T = 0) each of             *)
(* BlackScholesDelta, Gamma, Theta, Rho and Vega reports the sensitivity as *)
(* undefined (InvalidModelParameter) and returns no number, infinity or NaN.*)
C18_GreeksUndefinedAtZeroVariance ==
    (op \in Greeks /\ pc = "evaluated" /\ ZeroTotalVariance(args)) =>
        exc = "InvalidModelParameter"

(* C19: safeImpliedVolatility returns the oracle's implied volatility when  *)
(* option.impliedVolatility succeeds and None when it fails; it never       *)
(* raises and never returns a number for a failed lookup.                   *)
C19_SafeImpliedVolatility ==
    Called("safeImpliedVolatility") =>
        /\ exc = "none"
        /\ args.raises => ret = None
        /\ ~args.raises => ret = args.vol

(* the oracle failed and the caller got None *)
C19_Witness ==
    /\ Called("safeImpliedVolatility")
    /\ args.raises
    /\ exc = "none"
    /\ ret = None

(* C20: blackScholesParameters() returns the pair (rate, sigma_avg) with    *)
(* rate = ln(1+r)*N/T and sigma_avg = sqrt(sigma_down*sigma_up), where      *)
(* sigma_down = -ln(1+d)*sqrt(N/T) and sigma_up = ln(1+u)*sqrt(N/T); each   *)
(* factor is written [log |-> x, times |-> c, sqrtOf |-> y] for             *)
(* ln(x)*c*sqrt(y), over the fields of the model.                           *)
C20_BlackScholesParameters ==
    Returned("blackScholesParameters") =>
        LET NT == RMul(<<N, 1>>, Rat(T[2], T[1]))
            sigma_down == [log |-> RAdd(One, d), times |-> MinusOne, sqrtOf |-> NT]
            sigma_up == [log |-> RAdd(One, u), times |-> One, sqrtOf |-> NT]
        IN  /\ Len(ret) = 2
            /\ ret[1] = [log |-> RAdd(One, r), times |-> NT]
            /\ ret[2] = [sqrtOfProduct |-> <<sigma_down, sigma_up>>]

(* the parameters of a lattice with -1 < d < 0 < u and N >= 1 steps *)
C20_Witness ==
    /\ Returned("blackScholesParameters")
    /\ N >= 1
    /\ d = <<-1, 2>>
    /\ u = <<1, 2>>
    /\ r = <<1, 4>>

----------------------------------------------------------------------------
(* Riemann-Stieltjes sums and variations over the partitions of [a, b]    *)
(* into 2^n equal parts (src/BlackScholesModel/DaxOptions.ipynb).  X is a  *)
(* function of time, the linear interpolant of a path over the finest      *)
(* partition; like the notebook's interpolant over its grid of 2^nMax      *)
(* steps, it is only ever sampled at the points of that grid.              *)

MaxLevel == 2

(* np.linspace(a, b, 2**n + 1) *)
Partition(a, b, n) ==
    [k \in 1..(Pow2(n) + 1) |-> RAdd(a, Linspace(RSub(b, a), Pow2(n) + 1)[k])]

(* np.sum *)
RECURSIVE RSum(_)
RSum(sq) == IF sq = << >> THEN Zero ELSE RAdd(sq[1], RSum(Tail(sq)))

(* integral summing over all intervals but the last *)
integralWithoutLastInterval(Y, X, a, b, n, rho) ==
    LET t == Partition(a, b, n)
        sums == [k \in 1..(Len(t) - 2) |->
                    RMul(RAdd(RMul(rho, Y[t[k + 1]]), RMul(RSub(One, rho), Y[t[k]])),
                         RSub(X[t[k + 1]], X[t[k]]))]
    IN  RSum(sums)

(* integral with the weight rho on the left end of every interval *)
integralWeightsSwapped(Y, X, a, b, n, rho) ==
    LET t == Partition(a, b, n)
        sums == [k \in 1..(Len(t) - 1) |->
                    RMul(RAdd(RMul(rho, Y[t[k]]), RMul(RSub(One, rho), Y[t[k + 1]])),
                         RSub(X[t[k + 1]], X[t[k]]))]
    IN  RSum(sums)

(* sums = (rho*Y_[1:] + (1-rho)*Y_[:-1]) * (X_[1:]-X_[:-1]); np.sum(sums) *)
integral(Y, X, a, b, n, rho) ==
    LET t == Partition(a, b, n)
        X_ == [k \in 1..Len(t) |-> X[t[k]]]
        Y_ == [k \in 1..Len(t) |-> Y[t[k]]]
        sums == [k \in 1..(Len(t) - 1) |->
                    RMul(RAdd(RMul(rho, Y_[k + 1]), RMul(RSub(One, rho), Y_[k])),
                         RSub(X_[k + 1], X_[k]))]
    IN  RSum(sums)

(* variation without np.abs *)
variationWithoutAbs(X, a, b, n, p) ==
    LET t == Partition(a, b, n)
    IN  RSum([k \in 1..(Len(t) - 1) |-> RPow(RSub(X[t[k + 1]], X[t[k]]), p)])

(* np.sum(np.abs(X_[1:] - X_[:-1])**p) *)
variation(X, a, b, n, p) ==
    LET t == Partition(a, b, n)
        X_ == [k \in 1..Len(t) |-> X[t[k]]]
    IN  RSum([k \in 1..(Len(t) - 1) |-> RPow(RAbs(RSub(X_[k + 1], X_[k])), p)])

(* np.concatenate([[x0], increments.cumsum()]) *)
RECURSIVE Cumsum(_, _)
Cumsum(x0, increments) ==
    IF increments = << >> THEN << x0 >>
    ELSE << x0 >> \o Cumsum(RAdd(x0, increments[1]), Tail(increments))

(* the functions X over [a, b]: interp1d(t, X_, kind='linear') over the    *)
(* finest partition t, X_ a path of 2^MaxLevel increments; a path starts   *)
(* at 0.0 as in the notebook, or at 1.0                                    *)
XValues(a, b) ==
    LET t == Partition(a, b, MaxLevel)
    IN  { [s \in {t[k] : k \in DOMAIN t} |->
              Cumsum(x0, increments)[CHOOSE k \in DOMAIN t : t[k] = s]] :
          x0 \in {Zero, One},
          increments \in [1..Pow2(MaxLevel) -> { <<-1, 1>>, <<2, 1>> }] }

Intervals == { << <<0, 1>>, <<5, 1>> >>, << <<-1, 1>>, <<1, 2>> >> }

IntegralInputs ==
    UNION { [X : XValues(ab[1], ab[2]), a : {ab[1]}, b : {ab[2]}, n : 0..MaxLevel,
             rho : {Zero, <<1, 2>>, One}] : ab \in Intervals }

VariationInputs ==
    UNION { [X : XValues(ab[1], ab[2]), a : {ab[1]}, b : {ab[2]}, n : 0..MaxLevel,
             p : {1, 2}] : ab \in Intervals }

(* integral(X, X, a, b, k, rho=...) *)
CallIntegral ==
    \E in \in IntegralInputs :
        Apply("integral", in, integral(in.X, in.X, in.a, in.b, in.n, in.rho))

(* variation(X, a, b, k, p) *)
CallVariation ==
    \E in \in VariationInputs :
        Apply("variation", in, variation(in.X, in.a, in.b, in.n, in.p))

NextSums ==
    \/ CallIntegral
    \/ CallVariation
    \/ NextCell

SpecSums == InitBS /\ [][NextSums]_vars

----------------------------------------------------------------------------
(* Properties of the lattice's paths and of its Black-Scholes parameters *)

(* bit b of the row index j *)
Bit(j, b) == (j \div Pow2(b)) % 2

(* C21: for depth >= 1, every row j in 0..2^depth-1 and every column k in  *)
(* 0..depth-1, moves(depth)[j][k] is u if bit (depth-1-k) of j is 1 and d  *)
(* otherwise.                                                              *)
C21_MovesBitEnumeration ==
    (Returned("moves") /\ depth >= 1) =>
        /\ Len(ret) = Pow2(depth)
        /\ \A j \in 0..(Pow2(depth) - 1) : \A k \in 0..(depth - 1) :
              ret[j + 1][k + 1] = IF Bit(j, depth - 1 - k) = 1 THEN u ELSE d

(* a tree of the largest depth with two different moves *)
C21_Witness == Returned("moves") /\ depth = MaxN /\ d # u /\ ValidMoves

(* the number of up moves among the first k moves of a row of moves() *)
UpMoves(row, k) == Cardinality({i \in 1..k : row[i] = u})

(* C22: the lattice recombines at every level: for every row j and step k  *)
(* in 0..N, paths()[j][k] = gridPoints[k][i], i being the number of up     *)
(* moves among the first k moves of moves()[j]; the value at step k        *)
(* depends only on how many of the first k moves are up.                   *)
C22_PathsRecombine ==
    Returned("paths") =>
        /\ \A j \in 1..Len(ret) : \A k \in 0..N :
              ret[j][k + 1] = gridPoints[k + 1][UpMoves(acc[j], k) + 1]
        /\ \A j, j2 \in 1..Len(ret) : \A k \in 0..N :
              UpMoves(acc[j], k) = UpMoves(acc[j2], k) => ret[j][k + 1] = ret[j2][k + 1]

(* paths of the deepest lattice, where rows differ in the order of moves *)
C22_Witness ==
    /\ Returned("paths")
    /\ N = MaxN
    /\ ValidMoves
    /\ \E j, j2 \in 1..Len(ret) :
          /\ acc[j] # acc[j2]
          /\ UpMoves(acc[j], N) = UpMoves(acc[j2], N)
          /\ ret[j][N + 1] = ret[j2][N + 1]

(* the binomial coefficient C(n, i) *)
RECURSIVE Binomial(_, _)
Binomial(n, i) ==
    IF i < 0 \/ i > n THEN 0
    ELSE IF i = 0 \/ i = n THEN 1
    ELSE Binomial(n - 1, i - 1) + Binomial(n - 1, i)

(* the rows of p ending at node i of the last level *)
RowsEndingAt(p, i) == {j \in 1..Len(p) : p[j][N + 1] = gridPoints[N + 1][i + 1]}

(* C23: for every N >= 1 and i in 0..N, the number of rows of paths()      *)
(* whose terminal value is gridPoints[N][i] is the binomial coefficient    *)
(* C(N, i); stated for the lattices with -1 < d < u.                        *)
C23_LeafDistribution ==
    (Returned("paths") /\ N >= 1 /\ ValidMoves) =>
        \A i \in 0..N : Cardinality(RowsEndingAt(ret, i)) = Binomial(N, i)

(* a lattice whose middle leaves are reached by more than one path *)
C23_Witness ==
    /\ Returned("paths")
    /\ N = MaxN
    /\ ValidMoves
    /\ Cardinality(RowsEndingAt(ret, 1)) = MaxN

(* C24: moves(depth) returns exactly when depth >= 1.  Every nested call   *)
(* has the depth of its caller reduced by one; with depth >= 1 the base    *)
(* case depth = 1 is reached after depth-1 nested calls and the call       *)
(* returns; with depth <= 0 the depth stays below 1, the base case is      *)
(* never reached and nothing is returned.                                  *)
C24_MovesTerminates ==
    /\ [](pc = "call" =>
            /\ \A i \in 1..Len(stack) : stack[i] = depth - (i - 1)
            /\ depth >= 1 => Len(stack) <= depth
            /\ depth <= 0 => stack[Len(stack)] <= 0)
    /\ [](pc = "return" => depth >= 1)
    /\ [](exc = "RecursionError" => depth <= 0 /\ ret = << >>)
    /\ (pc = "call" /\ depth >= 1) ~> (pc = "idle" /\ exc = "none")
    /\ (pc = "call" /\ depth <= 0) ~> (pc = "idle" /\ exc # "none")

(* the base case of the deepest tree, reached after MaxN - 1 nested calls *)
C24_Witness ==
    /\ pc = "call"
    /\ caller = "moves"
    /\ depth = MaxN
    /\ Len(stack) = MaxN
    /\ stack[Len(stack)] = 1

(* C25: whenever BlackImpliedVol returns a value, for a maturity T > 0 and  *)
(* any price, the value lies in [0.01, 1.00]: the value the caller gets    *)
(* lies between ret.low and ret.high.                                      *)
C25_ImpliedVolInBracket ==
    (Evaluated("BlackImpliedVol") /\ RSign(args.T) > 0) =>
        /\ NIsRat(ret.vol) /\ NIsRat(ret.low) /\ NIsRat(ret.high)
        /\ RLeq(<<1, 100>>, ret.low.v.c[1])
        /\ RLeq(ret.low.v.c[1], ret.vol.v.c[1])
        /\ RLeq(ret.vol.v.c[1], ret.high.v.c[1])
        /\ RLeq(ret.high.v.c[1], <<1, 1>>)

(* a root strictly inside the bracket, found for a maturity other than 1 *)
C25_Witness ==
    /\ Evaluated("BlackImpliedVol")
    /\ args.T = <<1, 4>>
    /\ args.price.sigma = <<1, 2>>
    /\ ret.within # Zero

(* (1+d)*(1+u) = 1 *)
SymmetricTree == RMul(RAdd(One, d), RAdd(One, u)) = One

(* -ln(x) written as ln(1/x): the same real number *)
WithoutMinus(e) ==
    IF e.times = MinusOne /\ KindOf(e.log) = "pos"
    THEN [e EXCEPT !.times = One, !.log = RInv(e.log)]
    ELSE e

(* C26: for a symmetric tree, (1+d)*(1+u) = 1 with u > 0,                  *)
(* blackScholesParameters() has sigma_down = sigma_up, and the returned    *)
(* sigma_avg, the root of the square of a positive number, equals both:    *)
(* sigma_avg = ln(1+u)*sqrt(N/T); stated for N >= 1.                       *)
C26_SymmetricTreeSigma ==
    (Returned("blackScholesParameters") /\ SymmetricTree /\ RLess(Zero, u) /\ N >= 1) =>
        LET sigma_down == ret[2].sqrtOfProduct[1]
            sigma_up == ret[2].sqrtOfProduct[2]
        IN  /\ WithoutMinus(sigma_down) = sigma_up
            /\ sigma_up = [log |-> RAdd(One, u), times |-> One,
                           sqrtOf |-> RMul(<<N, 1>>, Rat(T[2], T[1]))]
            /\ SigmaKind(sigma_up) = "pos"
            /\ SigmaKind(sigma_down) = "pos"
            /\ AverageSigmaKind(ret[2]) = "pos"

(* the parameters of the tree with d = -1/2 and u = 1 over several steps *)
C26_Witness ==
    /\ Returned("blackScholesParameters")
    /\ SymmetricTree
    /\ u = <<1, 1>>
    /\ N = MaxN
    /\ T = <<2, 1>>

(* C27: for a lattice with -1 < d < u, blackScholesParameters() returns a  *)
(* real, non-negative sigma_avg exactly when d <= 0 <= u; when both moves  *)
(* have the same sign the product sigma_down*sigma_up is negative, its     *)
(* root is nan, and the method still returns without raising; stated for   *)
(* N >= 1.                                                                 *)
C27_AverageSigmaReal ==
    (op = "blackScholesParameters" /\ pc = "idle" /\ ValidMoves /\ N >= 1) =>
        LET sigma_down == ret[2].sqrtOfProduct[1]
            sigma_up == ret[2].sqrtOfProduct[2]
        IN  /\ exc = "none"
            /\ AverageSigmaKind(ret[2]) \in {"zero", "pos"} <=> (RLeq(d, Zero) /\ RLeq(Zero, u))
            /\ (RLess(Zero, d) \/ RLess(u, Zero)) =>
                  /\ TimesKind(SigmaKind(sigma_down), SigmaKind(sigma_up)) = "neg"
                  /\ AverageSigmaKind(ret[2]) = "nan"

(* a lattice whose two moves are both downwards *)
C27_Witness ==
    /\ Returned("blackScholesParameters")
    /\ N >= 1
    /\ d = <<-3, 4>>
    /\ u = <<-1, 2>>
    /\ AverageSigmaKind(ret[2]) = "nan"

(* C28: for every function X, interval [a,b] and level n >= 0,             *)
(* integral(X, X, a, b, n, rho=0.5) telescopes to (X(b)^2 - X(a)^2)/2,     *)
(* whatever n and the values of X at the interior points are.              *)
C28_MidpointSumTelescopes ==
    (Evaluated("integral") /\ args.rho = <<1, 2>>) =>
        ret = RMul(<<1, 2>>, RSub(RMul(args.X[args.b], args.X[args.b]),
                                  RMul(args.X[args.a], args.X[args.a])))

(* a sum over four intervals on which X goes up and down *)
C28_Witness ==
    /\ Evaluated("integral")
    /\ args.rho = <<1, 2>>
    /\ args.n = MaxLevel
    /\ args.X[args.a] # args.X[args.b]
    /\ \E s, t \in DOMAIN args.X : RLess(s, t) /\ RLess(args.X[t], args.X[s])
    /\ \E s, t \in DOMAIN args.X : RLess(s, t) /\ RLess(args.X[s], args.X[t])

(* C29: for every function X, interval [a,b] and level n >= 0,             *)
(* integral(X,X,a,b,n,rho=1) - integral(X,X,a,b,n,rho=0) =                 *)
(* variation(X,a,b,n,2), which is >= 0.                                    *)
C29_RightMinusLeftIsQuadraticVariation ==
    (Evaluated("integral") /\ args.rho = One) =>
        /\ RSub(ret, integral(args.X, args.X, args.a, args.b, args.n, Zero))
             = variation(args.X, args.a, args.b, args.n, 2)
        /\ RLeq(Zero, variation(args.X, args.a, args.b, args.n, 2))

(* a right-point sum over a partition on which X has moved *)
C29_Witness ==
    /\ Evaluated("integral")
    /\ args.rho = One
    /\ args.n >= 1
    /\ RLess(Zero, variation(args.X, args.a, args.b, args.n, 2))

(* C30: the total variation never decreases under refinement:              *)
(* variation(X,a,b,n+1,1) >= variation(X,a,b,n,1) >= |X(b) - X(a)| for     *)
(* every X and n >= 0.                                                     *)
C30_TotalVariationGrows ==
    (Evaluated("variation") /\ args.p = 1) =>
        /\ RLeq(RAbs(RSub(args.X[args.b], args.X[args.a])), ret)
        /\ args.n < MaxLevel =>
              RLeq(ret, variation(args.X, args.a, args.b, args.n + 1, 1))

(* a partition whose refinement has strictly more variation *)
C30_Witness ==
    /\ Evaluated("variation")
    /\ args.p = 1
    /\ args.n >= 1
    /\ args.n < MaxLevel
    /\ RLess(ret, variation(args.X, args.a, args.b, args.n + 1, 1))
    /\ RLess(RAbs(RSub(args.X[args.b], args.X[args.a])), ret)

====
